---- MODULE Spec2Model ----
(***************************************************************************)
(* Model of the Pomodoro timer engine of tempus-ring                       *)
(* (src-tauri/src/services/timer_state.rs): the TimerManager state         *)
(* machine behind one Mutex, its operations, and a wall clock.             *)
(*                                                                         *)
(* Time is counted in ticks of 1/TicksPerSec second.  An Instant is the    *)
(* tick at which it was taken, a Duration is a number of ticks, and        *)
(* Duration::as_secs is the integer division by TicksPerSec.               *)
(* Option<T> is a sequence: None is <<>> and Some(x) is <<x>>.             *)
(***************************************************************************)
EXTENDS Integers, Sequences, FiniteSets, TLC

\* ---------------------------------------------------------------- bounds
MaxTime == 4          \* the clock stops advancing at this tick
MaxCompleted == 3     \* Work completions are not started beyond this count
MaxDuration == 2      \* the work_duration update_config is given, in seconds
MaxCycle == 2         \* update_config draws the cycle length from 1..MaxCycle
MaxPending == 1       \* callers of check_if_completed between drop and complete
MaxRounds == 4        \* Work completions of a run of start/complete rounds
MaxDateLen == 2       \* the longest date string of a statistics record
MaxFiles == 2         \* files in the statistics directory

\* ------------------------------------------------------------- constants
TicksPerSec == 2

\* u32::MAX, 0xFFFF_FFFF, written as the 32-bit integer with the same bits:
\* 0 - 1 on a u32 that wraps. The other u32 values of the model are far
\* below 2^31 and are written as themselves.
U32Max == -1

None == <<>>
Some(x) == <<x>>

Running == {"Work", "ShortBreak", "LongBreak"}
TimerState == {"Idle", "Work", "ShortBreak", "LongBreak", "Paused"}

as_secs(d) == d \div TicksPerSec

\* Instant::now().elapsed().as_secs() of an instant taken in the same
\* statement or a few statements earlier
fresh_elapsed_secs == 0

\* impl Default for TimerConfig
DefaultConfig ==
  [work_duration |-> 1500, short_break_duration |-> 300,
   long_break_duration |-> 900, sessions_until_long_break |-> 4,
   auto_start_breaks |-> FALSE, auto_start_pomodoros |-> FALSE]

\* the configs a caller hands to update_config: positive durations, cycle >= 1
ConfigInputs ==
  [work_duration : {MaxDuration}, short_break_duration : {1},
   long_break_duration : {MaxDuration + 1},
   sessions_until_long_break : 1..MaxCycle,
   auto_start_breaks : BOOLEAN, auto_start_pomodoros : BOOLEAN]

\* TimerSession { id, start_time, end_time: None, session_type,
\* completed: false }
NewSession(prefix, ty) ==
  [id |-> <<prefix, fresh_elapsed_secs>>, start_time |-> fresh_elapsed_secs,
   end_time |-> None, session_type |-> ty, completed |-> FALSE]

\* the prefix of the session id built in complete_session
IdPrefix(ty) ==
  CASE ty = "Work" -> "work"
    [] ty = "ShortBreak" -> "short_break"
    [] ty = "LongBreak" -> "long_break"
    [] OTHER -> "unknown"

VARIABLES
  state,            \* the TimerManagerState behind the Mutex
  poisoned,         \* the Mutex is poisoned: a caller panicked holding it
  now,              \* the wall clock, in ticks
  pending,          \* check_if_completed calls that dropped the lock and are
                    \* about to call complete_session
  running_ticks,    \* ticks spent in a running phase since start_time was set
  paused_from,      \* while Paused: the phase and the session pause_timer found
  last_id,          \* the id of the TimerSession built most recently, if any
  last,             \* the last call that returned or panicked at this tick
  stats_dir,        \* StorageService: the files of <app data>/statistics
  loaded            \* the load_statistics call that has computed its result

\* the variables of the timer engine
timer_vars ==
  <<state, poisoned, now, pending, running_ticks, paused_from, last_id, last>>

vars == <<timer_vars, stats_dir, loaded>>

\* TimerManager::new
NewState ==
  [current_state |-> "Idle", config |-> DefaultConfig, start_time |-> None,
   pause_start |-> None, paused_duration |-> 0, current_session |-> None,
   completed_sessions |-> 0, sessions_until_long_break |-> 4]

\* the configured duration the match on current_state selects
DurationOf(s) ==
  CASE s.current_state = "Work" -> s.config.work_duration
    [] s.current_state = "ShortBreak" -> s.config.short_break_duration
    [] s.current_state = "LongBreak" -> s.config.long_break_duration
    [] OTHER -> 0

\* the elapsed time with the accumulated pause not subtracted
RunElapsed_IgnoresPause(s, t) == t - s.start_time[1]

\* start_time.elapsed() - state.paused_duration, in ticks (may be negative
\* here; Duration's Sub panics then)
RunElapsed(s, t) == (t - s.start_time[1]) - s.paused_duration

\* the Duration subtraction of get_timer_data_internal panics
SubPanics(s, t) ==
  /\ s.start_time # None
  /\ s.current_state # "Paused"
  /\ RunElapsed(s, t) < 0

\* get_timer_data_internal: progress is the fraction <<numerator, denominator>>
get_timer_data_internal(s, t) ==
  LET rp == IF s.start_time # None
            THEN LET duration == DurationOf(s)
                     elapsed == IF s.current_state = "Paused"
                                THEN s.paused_duration
                                ELSE RunElapsed(s, t)
                     \* as u32 truncates from 2^32 seconds on, which no
                     \* run of the model reaches
                     elapsed_secs == as_secs(elapsed)
                 IN IF elapsed_secs >= duration
                    THEN <<0, <<1, 1>>>>
                    ELSE <<duration - elapsed_secs, <<elapsed_secs, duration>>>>
            ELSE <<0, <<0, 1>>>>
  IN [state |-> s.current_state,
      current_session |-> s.current_session,
      remaining_time |-> rp[1],
      progress |-> rp[2],
      completed_sessions |-> s.completed_sessions,
      sessions_until_long_break |-> s.sessions_until_long_break]

\* what a caller saw of one call: the operation, "ok" or the Err message or
\* "panic", the Ok payload (at most one value), and whether the call built
\* a TimerSession
Call(op, res, ret, created) ==
  [op |-> op, res |-> res, ret |-> ret, created |-> created]

\* no call has been made at the present tick
NoCall == Call("none", "ok", None, FALSE)

\* self.state.lock() fails on a poisoned Mutex: Err("Lock error: ...")
LockError(op) ==
  /\ last' = Call(op, "Lock error", None, FALSE)
  /\ UNCHANGED <<state, poisoned, running_ticks, paused_from, last_id>>

\* the tail of every operation: Ok(self.get_timer_data_internal(&state))
Respond(op, post, created) ==
  /\ state' = post
  /\ running_ticks' = IF post.start_time = state.start_time
                      THEN running_ticks ELSE 0
  /\ paused_from' =
       IF post.current_state # "Paused" THEN None
       ELSE IF state.current_state # "Paused"
            THEN Some([phase |-> state.current_state,
                       session |-> state.current_session])
            ELSE paused_from
  /\ last_id' = IF created THEN Some(post.current_session[1].id) ELSE last_id
  /\ IF SubPanics(post, now)
     THEN /\ poisoned' = TRUE
          /\ last' = Call(op, "panic", None, created)
     ELSE /\ poisoned' = poisoned
          /\ last' = Call(op, "ok", Some(get_timer_data_internal(post, now)),
                          created)

Init ==
  /\ state = NewState
  /\ poisoned = FALSE
  /\ now = 0
  /\ pending = 0
  /\ running_ticks = 0
  /\ paused_from = None
  /\ last_id = None
  /\ last = NoCall
  /\ stats_dir = None
  /\ loaded = None

\* a clock that ends an expired phase by itself
Tick_Proactive ==
  /\ now < MaxTime
  /\ now' = now + 1
  /\ running_ticks' = IF state.current_state \in Running
                      THEN running_ticks + 1 ELSE running_ticks
  /\ last' = NoCall
  /\ state' = IF /\ state.current_state \in Running
                 /\ as_secs(RunElapsed(state, now + 1)) >= DurationOf(state)
              THEN [state EXCEPT !.current_state = "Idle",
                                 !.start_time = None,
                                 !.current_session = None]
              ELSE state
  /\ UNCHANGED <<poisoned, pending, paused_from, last_id>>
  /\ UNCHANGED <<stats_dir, loaded>>

\* the wall clock advances
Tick ==
  /\ now < MaxTime
  /\ now' = now + 1
  /\ running_ticks' = IF state.current_state \in Running
                      THEN running_ticks + 1 ELSE running_ticks
  /\ last' = NoCall
  /\ UNCHANGED <<state, poisoned, pending, paused_from, last_id>>
  /\ UNCHANGED <<stats_dir, loaded>>

\* an Err(String) return of a match arm that forbids the call
Illegal(op, msg) ==
  /\ last' = Call(op, msg, None, FALSE)
  /\ UNCHANGED <<state, poisoned, running_ticks, paused_from, last_id>>

\* the Idle arm without the reset of paused_duration
StartFromIdle_KeepsPause(s, t) ==
  [s EXCEPT !.current_state = "Work",
            !.start_time = Some(t),
            !.current_session = Some(NewSession("work", "Work"))]

\* start_timer, the Idle arm
StartFromIdle(s, t) ==
  [s EXCEPT !.current_state = "Work",
            !.start_time = Some(t),
            !.paused_duration = 0,
            !.current_session = Some(NewSession("work", "Work"))]

\* the Paused arm without the pause added to paused_duration
ResumeFromPause_DropsPause(s, t) ==
  [s EXCEPT !.pause_start = None,
            !.current_state =
              IF s.current_session # None
              THEN s.current_session[1].session_type ELSE "Work"]

\* start_timer, the Paused arm
ResumeFromPause(s, t) ==
  [s EXCEPT !.paused_duration =
              IF s.pause_start # None THEN @ + (t - s.pause_start[1]) ELSE @,
            !.pause_start = None,
            !.current_state =
              IF s.current_session # None
              THEN s.current_session[1].session_type ELSE "Work"]

start_timer ==
  /\ IF poisoned THEN LockError("start_timer")
     ELSE CASE state.current_state = "Idle" ->
                 Respond("start_timer", StartFromIdle(state, now), TRUE)
            [] state.current_state = "Paused" ->
                 Respond("start_timer", ResumeFromPause(state, now), FALSE)
            [] OTHER ->
                 Illegal("start_timer", "Cannot start timer in current state")
  /\ UNCHANGED <<now, pending, stats_dir, loaded>>

\* pause_timer, the running arm
Pause(s, t) ==
  [s EXCEPT !.current_state = "Paused", !.pause_start = Some(t)]

\* pause_timer with the Paused phase let into the pausing arm
pause_timer_AlsoPaused ==
  /\ IF poisoned THEN LockError("pause_timer")
     ELSE IF state.current_state \in Running \cup {"Paused"}
          THEN Respond("pause_timer", Pause(state, now), FALSE)
          ELSE Illegal("pause_timer", "Cannot pause timer in current state")
  /\ UNCHANGED <<now, pending, stats_dir, loaded>>

pause_timer ==
  /\ IF poisoned THEN LockError("pause_timer")
     ELSE IF state.current_state \in Running
          THEN Respond("pause_timer", Pause(state, now), FALSE)
          ELSE Illegal("pause_timer", "Cannot pause timer in current state")
  /\ UNCHANGED <<now, pending, stats_dir, loaded>>

\* reset_timer with the lifetime count cleared as well
Reset_ClearsCount(s) ==
  [s EXCEPT !.current_state = "Idle",
            !.start_time = None,
            !.pause_start = None,
            !.paused_duration = 0,
            !.current_session = None,
            !.completed_sessions = 0]

\* reset_timer: completed_sessions and sessions_until_long_break are kept
Reset(s) ==
  [s EXCEPT !.current_state = "Idle",
            !.start_time = None,
            !.pause_start = None,
            !.paused_duration = 0,
            !.current_session = None]

reset_timer ==
  /\ IF poisoned THEN LockError("reset_timer")
     ELSE Respond("reset_timer", Reset(state), FALSE)
  /\ UNCHANGED <<now, pending, stats_dir, loaded>>

get_timer_state ==
  /\ IF poisoned THEN LockError("get_timer_state")
     ELSE Respond("get_timer_state", state, FALSE)
  /\ UNCHANGED <<now, pending, stats_dir, loaded>>

UpdateConfig(s, config) ==
  [s EXCEPT !.config = config,
            !.sessions_until_long_break = config.sessions_until_long_break]

update_config ==
  /\ \E config \in ConfigInputs :
       IF poisoned THEN LockError("update_config")
       ELSE Respond("update_config", UpdateConfig(state, config), FALSE)
  /\ UNCHANGED <<now, pending, stats_dir, loaded>>

get_config ==
  /\ IF poisoned THEN LockError("get_config")
     ELSE /\ last' = Call("get_config", "ok", Some(state.config), FALSE)
          /\ UNCHANGED <<state, poisoned, running_ticks, paused_from, last_id>>
  /\ UNCHANGED <<now, pending, stats_dir, loaded>>

\* complete_session, the current session marked: completed and end_time are
\* set, and a Work session is counted (the countdown is decremented next)
MarkCompleted(s) ==
  IF s.current_session = None THEN s
  ELSE [s EXCEPT !.current_session =
                   Some([@[1] EXCEPT !.completed = TRUE,
                                     !.end_time = Some(fresh_elapsed_secs)]),
                 !.completed_sessions =
                   IF s.current_session[1].session_type = "Work"
                   THEN @ + 1 ELSE @]

\* the session complete_session marks is a Work session
CountsAsWork(s) ==
  /\ s.current_session # None
  /\ s.current_session[1].session_type = "Work"

\* state.sessions_until_long_break -= 1 on a u32, where it does not panic
Decrement(s) ==
  [s EXCEPT !.sessions_until_long_break =
              IF CountsAsWork(s)
              THEN (IF @ = 0 THEN U32Max ELSE @ - 1) ELSE @]

\* the match with the long break taken one completion early
NextState_OneEarly(s) ==
  CASE s.current_state = "Work" ->
         IF s.sessions_until_long_break <= 1 THEN "LongBreak" ELSE "ShortBreak"
    [] s.current_state \in {"ShortBreak", "LongBreak"} -> "Work"
    [] OTHER -> "Idle"

\* let next_state = match state.current_state { ... }
NextState(s) ==
  CASE s.current_state = "Work" ->
         IF s.sessions_until_long_break = 0 THEN "LongBreak" ELSE "ShortBreak"
    [] s.current_state \in {"ShortBreak", "LongBreak"} -> "Work"
    [] OTHER -> "Idle"

\* the Work arm without the reset
ResetCountdown_Never(s) == s

\* the Work arm of that match resets a countdown that has reached zero
ResetCountdown(s) ==
  IF s.current_state = "Work" /\ s.sessions_until_long_break = 0
  THEN [s EXCEPT !.sessions_until_long_break =
                   s.config.sessions_until_long_break]
  ELSE s

\* the auto-start condition without its test of next_state
AutoStart_AnyPomodoro(s, next_state) ==
  \/ s.config.auto_start_breaks
  \/ s.config.auto_start_pomodoros

\* the condition of the auto-start branch
AutoStart(s, next_state) ==
  \/ s.config.auto_start_breaks
  \/ (next_state = "Work" /\ s.config.auto_start_pomodoros)

\* the two branches that end complete_session
Transition(s, next_state, t) ==
  IF AutoStart(s, next_state)
  THEN [s EXCEPT !.current_state = next_state,
                 !.start_time = Some(t),
                 !.paused_duration = 0,
                 !.current_session =
                   Some(NewSession(IdPrefix(next_state), next_state))]
  ELSE [s EXCEPT !.current_state = "Idle",
                 !.start_time = None,
                 !.current_session = None]

\* state.sessions_until_long_break -= 1 is applied to a countdown of 0
Underflows(s) == CountsAsWork(s) /\ s.sessions_until_long_break = 0

\* the body of complete_session, called as op. The build decides what the
\* decrement of a zero countdown does: with overflow checks (the dev and test
\* profiles) it panics, without them (the release profile) it wraps. One
\* run meets at most one underflow that matters: a panic poisons the lock
\* for good, and a wrapped countdown does not come back to 0 within
\* MaxCompleted completions.
Complete(op) ==
  IF poisoned THEN LockError(op)
  ELSE \E overflow_checks \in BOOLEAN :
         IF Underflows(state) /\ overflow_checks
         THEN \* attempt to subtract with overflow: the caller panics
              \* holding the lock
              /\ state' = MarkCompleted(state)
              /\ poisoned' = TRUE
              /\ last' = Call(op, "panic", None, FALSE)
              /\ UNCHANGED <<running_ticks, paused_from, last_id>>
         ELSE LET s2 == Decrement(MarkCompleted(state))
                  next_state == NextState(s2)
                  s3 == ResetCountdown(s2)
              IN Respond(op, Transition(s3, next_state, now),
                         AutoStart(s3, next_state))

\* the calls of this run stop counting Work sessions at MaxCompleted
WithinCount ==
  CountsAsWork(state) => state.completed_sessions < MaxCompleted

complete_session ==
  /\ WithinCount
  /\ Complete("complete_session")
  /\ UNCHANGED <<now, pending, stats_dir, loaded>>

\* the expiry test passing only after the duration is exceeded
Expired_Late(s, t) ==
  /\ s.start_time # None
  /\ s.current_state \in Running
  /\ as_secs(RunElapsed(s, t)) > DurationOf(s)

\* the expiry test passing one second early
Expired_OneEarly(s, t) ==
  /\ s.start_time # None
  /\ s.current_state \in Running
  /\ as_secs(RunElapsed(s, t)) + 1 >= DurationOf(s)

\* check_if_completed finds the running phase expired
Expired(s, t) ==
  /\ s.start_time # None
  /\ s.current_state \in Running
  /\ as_secs(RunElapsed(s, t)) >= DurationOf(s)

\* check_if_completed up to its return or to drop(state)
check_if_completed ==
  /\ IF poisoned THEN LockError("check_if_completed") /\ UNCHANGED pending
     ELSE IF SubPanics(state, now) /\ state.current_state \in Running
          THEN /\ poisoned' = TRUE
               /\ last' = Call("check_if_completed", "panic", None, FALSE)
               /\ UNCHANGED <<state, running_ticks, paused_from, last_id,
                              pending>>
          ELSE IF Expired(state, now)
               THEN /\ pending < MaxPending
                    /\ pending' = pending + 1
                    /\ last' = Call("check_if_completed", "dropped", None,
                                    FALSE)
                    /\ UNCHANGED <<state, poisoned, running_ticks,
                                   paused_from, last_id>>
               ELSE /\ last' = Call("check_if_completed", "ok", None, FALSE)
                    /\ UNCHANGED <<state, poisoned, running_ticks,
                                   paused_from, last_id, pending>>
  /\ UNCHANGED <<now, stats_dir, loaded>>

\* check_if_completed after drop(state):
\* return Ok(Some(self.complete_session()?))
check_then_complete ==
  /\ pending > 0
  /\ WithinCount
  /\ pending' = pending - 1
  /\ Complete("check_if_completed")
  /\ UNCHANGED <<now, stats_dir, loaded>>

Next ==
  \/ Tick
  \/ start_timer
  \/ pause_timer
  \/ reset_timer
  \/ get_timer_state
  \/ update_config
  \/ get_config
  \/ complete_session
  \/ check_if_completed
  \/ check_then_complete

Spec == Init /\ [][Next]_vars

\* ------------------------------------------------- rounds of start/complete
\* The runs of tests/commands.rs test_long_break_cycle and of its variant
\* with a config set first: a fresh engine, at most one update_config before
\* anything else, then only start_timer, complete_session and the reads.

\* update_config called on the engine as TimerManager::new left it
update_config_fresh ==
  /\ state = NewState
  /\ update_config

\* complete_session, Work sessions counted up to MaxRounds
complete_session_round ==
  /\ CountsAsWork(state) => state.completed_sessions < MaxRounds
  /\ Complete("complete_session")
  /\ UNCHANGED <<now, pending, stats_dir, loaded>>

NextRounds ==
  \/ Tick
  \/ update_config_fresh
  \/ start_timer
  \/ complete_session_round
  \/ get_timer_state
  \/ get_config

SpecRounds == Init /\ [][NextRounds]_vars

\* ------------------------------------------------------ a polled engine
\* The front end polls check_if_completed while a phase runs: a fresh
\* engine, at most one update_config before anything else, then start_timer,
\* the polls and the reads; no pause_timer, reset_timer or later
\* update_config. The clock keeps advancing up to MaxTime, the poller keeps
\* calling, and a poller that dropped the lock goes on to complete_session
\* as soon as it gets the lock back.
NextPoll ==
  \/ Tick
  \/ update_config_fresh
  \/ start_timer
  \/ get_timer_state
  \/ get_config
  \/ check_if_completed
  \/ check_then_complete

SpecPoll ==
  /\ Init
  /\ [][NextPoll]_vars
  /\ WF_vars(Tick)
  /\ WF_vars(check_if_completed)
  /\ WF_vars(check_then_complete)

\* ------------------------------------------- breaks never auto-started
\* The runs in which config.auto_start_breaks is false throughout: the
\* engine starts with it false (DefaultConfig) and only update_config
\* writes the config, so these are the runs of Spec in which every
\* update_config is handed a config with auto_start_breaks = false.

\* update_config with a config that leaves auto_start_breaks off
update_config_manual ==
  /\ \E config \in ConfigInputs :
       /\ config.auto_start_breaks = FALSE
       /\ IF poisoned THEN LockError("update_config")
          ELSE Respond("update_config", UpdateConfig(state, config), FALSE)
  /\ UNCHANGED <<now, pending, stats_dir, loaded>>

NextManual ==
  \/ Tick
  \/ start_timer
  \/ pause_timer
  \/ reset_timer
  \/ get_timer_state
  \/ update_config_manual
  \/ get_config
  \/ complete_session
  \/ check_if_completed
  \/ check_then_complete

SpecManual == Init /\ [][NextManual]_vars

\* ------------------------------------------------- the statistics storage
\* StorageService (services/storage.rs) keeps one file per TimerStatistic in
\* <app data>/statistics, named <date>.json. A date is a string, here a
\* sequence of the bytes in DateChars; a record is shown by its date alone,
\* the field load_statistics looks at. The directory is None while it does
\* not exist and else Some(the set of its files); the content of a file is
\* Some(record) when serde_json parses it as a TimerStatistic and None when
\* it does not.

DateChars == {1, 2}

\* TimerStatistic::date is any String, the empty one included
Dates == UNION {[1..n -> DateChars] : n \in 0..MaxDateLen}

\* a < b on &str: the lexicographic order of the bytes
RECURSIVE str_lt(_, _)
str_lt(a, b) ==
  IF b = <<>> THEN FALSE
  ELSE IF a = <<>> THEN TRUE
  ELSE IF Head(a) # Head(b) THEN Head(a) < Head(b)
  ELSE str_lt(Tail(a), Tail(b))

\* is_date_in_range: false if date < from or date > to, true otherwise
is_date_in_range(date, from_date, to_date) ==
  /\ from_date # None => ~str_lt(date, from_date[1])
  /\ to_date # None => ~str_lt(to_date[1], date)

\* the file named <stem>.<ext>
File(stem, ext, content) == [stem |-> stem, ext |-> ext, content |-> content]

\* Path::extension: the part of the file name after the final dot, and None
\* if the name begins with its only dot (the stems here hold no dot)
extension(f) == IF f.stem = <<>> THEN None ELSE Some(f.ext)

\* fs::write: the file replaces the one of the same name
WriteFile(dir, f) ==
  {g \in dir : g.stem # f.stem \/ g.ext # f.ext} \cup {f}

\* the files of the directory, none while it does not exist
FilesOf(dir) == IF dir = None THEN {} ELSE dir[1]

\* save_statistic: create_dir_all, then write <date>.json
save_statistic ==
  /\ loaded = None
  /\ \E date \in Dates :
       LET files == WriteFile(FilesOf(stats_dir),
                              File(date, "json", Some([date |-> date])))
       IN /\ Cardinality(files) <= MaxFiles
          /\ stats_dir' = Some(files)
  /\ UNCHANGED <<loaded, timer_vars>>

\* a file the service did not write: a .json file that does not parse as a
\* TimerStatistic, or the record dated "1" kept under another extension
ForeignFiles ==
  {File(stem, "json", None) : stem \in Dates}
    \cup {File(<<1>>, "tmp", Some([date |-> <<1>>]))}

foreign_file ==
  /\ loaded = None
  /\ stats_dir # None
  /\ \E f \in ForeignFiles :
       LET files == WriteFile(stats_dir[1], f)
       IN /\ Cardinality(files) <= MaxFiles
          /\ stats_dir' = Some(files)
  /\ UNCHANGED <<loaded, timer_vars>>

\* clear_statistics: remove_dir_all and create_dir_all if the directory exists
clear_statistics ==
  /\ loaded = None
  /\ stats_dir' = IF stats_dir = None THEN None ELSE Some({})
  /\ UNCHANGED <<loaded, timer_vars>>

\* fs::read_dir yields the entries in an order the platform chooses
ReadDirOrders(files) ==
  {entries \in [1..Cardinality(files) -> files] :
     \A i, j \in 1..Cardinality(files) : i # j => entries[i] # entries[j]}

\* the loop of load_statistics: the .json entries that parse and whose date
\* is in the range, pushed in the order read
RECURSIVE Collect(_, _, _)
Collect(entries, from_date, to_date) ==
  IF entries = <<>> THEN <<>>
  ELSE LET f == Head(entries)
           rest == Collect(Tail(entries), from_date, to_date)
       IN IF /\ extension(f) = Some("json")
             /\ f.content # None
             /\ is_date_in_range(f.content[1].date, from_date, to_date)
          THEN <<f.content[1]>> \o rest
          ELSE rest

\* one step of the stable sort: stat goes behind the records that do not
\* come after it
InsertByDate(sorted, stat) ==
  LET k == Cardinality({i \in 1..Len(sorted) :
                          ~str_lt(stat.date, sorted[i].date)})
  IN SubSeq(sorted, 1, k) \o <<stat>> \o SubSeq(sorted, k + 1, Len(sorted))

\* statistics.sort_by(|a, b| a.date.cmp(&b.date))
RECURSIVE sort_by_date(_)
sort_by_date(statistics) ==
  IF statistics = <<>> THEN <<>>
  ELSE InsertByDate(sort_by_date(SubSeq(statistics, 1, Len(statistics) - 1)),
                    statistics[Len(statistics)])

\* load_statistics(from_date, to_date) up to Ok(statistics). The calls of
\* the service are taken one at a time: the next one starts when this one
\* has returned.
load_statistics ==
  /\ loaded = None
  /\ \E from_date \in {None} \cup {Some(d) : d \in Dates} :
       \E to_date \in {None} \cup {Some(d) : d \in Dates} :
         \E entries \in ReadDirOrders(FilesOf(stats_dir)) :
           loaded' = [from_date |-> from_date, to_date |-> to_date,
                      statistics |->
                        sort_by_date(Collect(entries, from_date, to_date))]
  /\ UNCHANGED <<stats_dir, timer_vars>>

\* the load_statistics command hands the result to the front end
load_statistics_return ==
  /\ loaded # None
  /\ loaded' = None
  /\ UNCHANGED <<stats_dir, timer_vars>>

NextStorage ==
  \/ save_statistic
  \/ foreign_file
  \/ clear_statistics
  \/ load_statistics
  \/ load_statistics_return

SpecStorage == Init /\ [][NextStorage]_vars

\* ------------------------------------------------------------------ claims
\* In the action formulas below a step is a call of the operation named by
\* last'.op: every action writes last, and Tick clears it.

ErrorResults ==
  {"Lock error", "Cannot start timer in current state",
   "Cannot pause timer in current state"}

\* the duration the configuration gives a running phase, in seconds
ConfiguredDuration(phase, config) ==
  IF phase = "Work" THEN config.work_duration
  ELSE IF phase = "ShortBreak" THEN config.short_break_duration
  ELSE config.long_break_duration

\* whole seconds of running elapsed time: time since the phase start minus
\* the accumulated pause
RunningSecs(s, t) ==
  ((t - s.start_time[1]) - s.paused_duration) \div TicksPerSec

\* C1: start() called in phase Idle succeeds, yields phase Work with a newly
\* created session of type Work that is not completed and has no end_time,
\* and returns a snapshot with remaining == work_duration and progress 0.
C1_StartFromIdle ==
  [][ (last'.op = "start_timer" /\ state.current_state = "Idle") =>
        /\ last'.res = "ok"
        /\ last'.created
        /\ state'.current_state = "Work"
        /\ state'.current_session # None
        /\ state'.current_session[1].session_type = "Work"
        /\ state'.current_session[1].completed = FALSE
        /\ state'.current_session[1].end_time = None
        /\ last'.ret # None
        /\ last'.ret[1].state = "Work"
        /\ last'.ret[1].current_session = state'.current_session
        /\ last'.ret[1].remaining_time = state'.config.work_duration
        /\ last'.ret[1].progress[1] = 0 ]_vars

\* a start from Idle, later than tick 0, after an earlier Work completion
C1_Witness ==
  /\ last.op = "start_timer"
  /\ last.res = "ok"
  /\ last.created
  /\ state.current_state = "Work"
  /\ state.completed_sessions >= 1
  /\ now >= 2
  /\ last.ret[1].remaining_time = state.config.work_duration

\* C3: start() in a running phase and pause() in Idle or Paused return an
\* error and leave every field of the engine state unchanged.
C3_IllegalCallsChangeNothing ==
  [][ ( \/ (last'.op = "start_timer" /\ state.current_state \in Running)
        \/ (last'.op = "pause_timer"
              /\ state.current_state \in {"Idle", "Paused"}) ) =>
        /\ last'.res \in ErrorResults
        /\ last'.ret = None
        /\ state' = state ]_vars

\* pause() refused while Paused, with a pause already under way
C3_Witness ==
  /\ last.op = "pause_timer"
  /\ last.res = "Cannot pause timer in current state"
  /\ state.current_state = "Paused"
  /\ state.pause_start # None
  /\ state.pause_start[1] < now

\* C6: every snapshot returned in a running phase with configured duration
\* D > 0 and running elapsed seconds e reports remaining 0 and progress 1
\* when e >= D, and remaining D - e and progress e/D when 0 <= e < D.
C6_RemainingAndProgress ==
  ( /\ last.res = "ok"
    /\ last.op \notin {"none", "get_config"}
    /\ last.ret # None
    /\ state.current_state \in Running ) =>
    LET D == ConfiguredDuration(state.current_state, state.config)
        e == RunningSecs(state, now)
        d == last.ret[1]
    IN D > 0 =>
         /\ d.state = state.current_state
         /\ e >= D => (d.remaining_time = 0 /\ d.progress[1] = d.progress[2])
         /\ (0 <= e /\ e < D) =>
              /\ d.remaining_time = D - e
              /\ d.progress[1] * D = e * d.progress[2]

\* a snapshot part way through a phase that was paused for a while
C6_Witness ==
  /\ last.res = "ok"
  /\ last.op = "get_timer_state"
  /\ state.current_state \in Running
  /\ state.paused_duration > 0
  /\ RunningSecs(state, now) = 1
  /\ last.ret[1].remaining_time = 1
  /\ last.ret[1].progress = <<1, 2>>

\* C8: in a running phase the elapsed time the engine computes is the time
\* spent running since the phase start (paused intervals excluded), and
\* neither pause() nor a resuming start() changes the phase start instant.
C8_PausesExcluded ==
  /\ [](state.current_state \in Running =>
          /\ state.start_time # None
          /\ (now - state.start_time[1]) - state.paused_duration
               = running_ticks)
  /\ [][ ( \/ last'.op = "pause_timer"
            \/ (last'.op = "start_timer" /\ state.current_state = "Paused") )
          => state'.start_time = state.start_time ]_vars

\* a phase resumed after a pause and running again
C8_Witness ==
  /\ state.current_state \in Running
  /\ state.paused_duration >= 2
  /\ running_ticks >= 2
  /\ now - state.start_time[1] = state.paused_duration + running_ticks

\* the current session of s is a Work session
HasWorkSession(s) ==
  s.current_session # None /\ s.current_session[1].session_type = "Work"

\* C2: pause() returns an error in phase Idle or Paused; in phase Work,
\* ShortBreak or LongBreak it succeeds and yields phase Paused with the
\* current session kept.
C2_Pause ==
  [][ last'.op = "pause_timer" =>
        IF state.current_state \in {"Idle", "Paused"}
        THEN last'.res \in ErrorResults
        ELSE /\ last'.res = "ok"
             /\ state'.current_state = "Paused"
             /\ state'.current_session = state.current_session ]_vars

\* C4: start() called while still Paused after a pause() in phase P yields
\* phase P with the session the pause found, and creates no session.
C4_ResumeRestores ==
  [][ ( /\ last'.op = "start_timer"
        /\ state.current_state = "Paused"
        /\ paused_from # None ) =>
        /\ state'.current_state = paused_from[1].phase
        /\ state'.current_session = paused_from[1].session
        /\ ~last'.created ]_vars

\* C5: reset() succeeds from every phase, yields phase Idle with no session,
\* no start instant, no pause instant and zero accumulated pause, and leaves
\* completed_sessions, the countdown and the config as they were.
C5_Reset ==
  [][ last'.op = "reset_timer" =>
        /\ last'.res = "ok"
        /\ state'.current_state = "Idle"
        /\ state'.current_session = None
        /\ state'.start_time = None
        /\ state'.pause_start = None
        /\ state'.paused_duration = 0
        /\ state'.completed_sessions = state.completed_sessions
        /\ state'.sessions_until_long_break = state.sessions_until_long_break
        /\ state'.config = state.config ]_vars

\* C7: pause() called in a running phase whose snapshot reports remaining
\* r > 0 returns a snapshot that reports remaining r.
C7_PauseKeepsRemaining ==
  [][ ( /\ last'.op = "pause_timer"
        /\ last'.res = "ok"
        /\ state.current_state \in Running ) =>
        LET r == ConfiguredDuration(state.current_state, state.config)
                   - RunningSecs(state, now)
        IN r > 0 => last'.ret[1].remaining_time = r ]_vars

\* C9: complete_session() adds exactly 1 to completed_sessions and takes
\* exactly 1 off the countdown (before the reset of a countdown that reached
\* zero in phase Work) if the current session is a Work session, and leaves
\* both as they were otherwise.
C9_CompletionCounts ==
  [][ last'.op = "complete_session" =>
        LET before == state.sessions_until_long_break
        IN IF HasWorkSession(state)
           THEN /\ state'.completed_sessions = state.completed_sessions + 1
                /\ before # 0
                /\ state'.sessions_until_long_break =
                     IF before = 1 /\ state.current_state = "Work"
                     THEN state.config.sessions_until_long_break
                     ELSE before - 1
           ELSE /\ state'.completed_sessions = state.completed_sessions
                /\ state'.sessions_until_long_break = before ]_vars

\* C10: complete_session() takes next from the phase (Work: LongBreak when
\* the countdown reached zero, which is then reset to the cycle length, else
\* ShortBreak; a break: Work; any other phase: Idle), and either enters
\* next with a new uncompleted session of type next, a fresh start instant
\* and zero accumulated pause (auto_start_breaks, or next is Work and
\* auto_start_pomodoros), or becomes Idle with the session cleared.
C10_Transition ==
  [][ last'.op = "complete_session" =>
        LET phase == state.current_state
            counted == IF HasWorkSession(state)
                       THEN state.sessions_until_long_break - 1
                       ELSE state.sessions_until_long_break
            next == IF phase = "Work"
                    THEN (IF counted = 0 THEN "LongBreak" ELSE "ShortBreak")
                    ELSE IF phase \in {"ShortBreak", "LongBreak"}
                         THEN "Work" ELSE "Idle"
            auto == \/ state.config.auto_start_breaks
                    \/ (next = "Work" /\ state.config.auto_start_pomodoros)
        IN /\ (phase = "Work" /\ counted = 0) =>
                state'.sessions_until_long_break =
                  state.config.sessions_until_long_break
           /\ IF auto
              THEN /\ state'.current_state = next
                   /\ last'.created
                   /\ state'.current_session # None
                   /\ state'.current_session[1].session_type = next
                   /\ state'.current_session[1].completed = FALSE
                   /\ state'.current_session[1].end_time = None
                   /\ state'.start_time = Some(now)
                   /\ state'.paused_duration = 0
              ELSE /\ state'.current_state = "Idle"
                   /\ state'.current_session = None ]_vars

\* ------------------------------------------------ claims under SpecRounds

\* the countdown of a cycle of n Work sessions after k completions
CountdownAfter(k, n) == n - (k % n)

\* C11: with the default config (cycle 4, no auto-start) and a fresh engine,
\* rounds of start() then complete_session() leave the phase Idle after each
\* completion; completed_sessions counts the completions, and the countdown
\* after the k-th is 4 - k for k < 4 and 4 again after the fourth.
C11_DefaultCycle ==
  /\ [](state.config = DefaultConfig =>
          /\ state.current_state \in {"Idle", "Work"}
          /\ state.sessions_until_long_break =
               CountdownAfter(state.completed_sessions, 4))
  /\ [][ ( /\ state.config = DefaultConfig
           /\ last'.op = "complete_session"
           /\ state.current_state = "Work" ) =>
          /\ last'.res = "ok"
          /\ state'.current_state = "Idle"
          /\ state'.completed_sessions = state.completed_sessions + 1 ]_vars

\* the fourth round of the default cycle has completed
C11_Witness ==
  /\ state.config = DefaultConfig
  /\ last.op = "complete_session"
  /\ last.res = "ok"
  /\ state.current_state = "Idle"
  /\ state.completed_sessions = 4
  /\ state.sessions_until_long_break = 4

\* C12: with auto_start_breaks set and the cycle length N set by update_config
\* on a fresh engine, the k-th completion of a Work session from phase Work
\* (the auto-started breaks completed in between) enters LongBreak if k is a
\* multiple of N and ShortBreak otherwise, and after each entry into
\* LongBreak the countdown is N. No session is paused in these runs, so
\* completed_sessions after the call is k.
C12_LongBreakEveryNth ==
  [][ ( /\ state.config.auto_start_breaks
        /\ last'.op = "complete_session"
        /\ state.current_state = "Work" ) =>
        LET N == state.config.sessions_until_long_break
            k == state'.completed_sessions
        IN /\ last'.res = "ok"
           /\ k = state.completed_sessions + 1
           /\ state'.current_state =
                IF k % N = 0 THEN "LongBreak" ELSE "ShortBreak"
           /\ state'.current_state = "LongBreak" =>
                state'.sessions_until_long_break = N ]_vars

\* the second long break of a cycle of 2, entered by the fourth completion
C12_Witness ==
  /\ state.config.auto_start_breaks
  /\ state.config.sessions_until_long_break = 2
  /\ last.op = "complete_session"
  /\ last.created
  /\ state.current_state = "LongBreak"
  /\ state.completed_sessions = 4
  /\ state.sessions_until_long_break = 2

\* -------------------------------------------------- further claims on Spec

\* C13: complete_session() called in phase Idle, under every config
\* (auto_start_breaks included), succeeds, leaves the phase Idle, creates no
\* session (the current session stays absent), and leaves completed_sessions
\* and the countdown as they were.
C13_CompleteInIdle ==
  [][ (last'.op = "complete_session" /\ state.current_state = "Idle") =>
        /\ last'.res = "ok"
        /\ state'.current_state = "Idle"
        /\ ~last'.created
        /\ state'.current_session = None
        /\ state'.completed_sessions = state.completed_sessions
        /\ state'.sessions_until_long_break =
             state.sessions_until_long_break ]_vars

\* C14: in every reachable state the current session is present if and only
\* if the phase is Work, ShortBreak, LongBreak or Paused.
C14_SessionIffActive ==
  (state.current_session # None) <=>
    (state.current_state \in {"Work", "ShortBreak", "LongBreak", "Paused"})

\* C15: in every reachable state the pause start instant is present if and
\* only if the phase is Paused (so complete_session() called while Paused
\* leaves none behind).
C15_PauseStartIffPaused ==
  (state.pause_start # None) <=> (state.current_state = "Paused")

\* C16: in every reachable state whose phase is Idle the phase start instant
\* is absent, and every snapshot reports remaining 0 and progress 0.0.
C16_IdleSnapshot ==
  state.current_state = "Idle" =>
    /\ state.start_time = None
    /\ ( /\ last.res = "ok"
         /\ last.op \notin {"none", "get_config"}
         /\ last.ret # None ) =>
         /\ last.ret[1].state = "Idle"
         /\ last.ret[1].remaining_time = 0
         /\ last.ret[1].progress[1] = 0

\* C17: every session built by start() or by an auto-transition of
\* complete_session() has session_type Work, ShortBreak or LongBreak; no
\* reachable state holds a current session of type Idle or Paused.
C17_SessionTypes ==
  state.current_session # None =>
    state.current_session[1].session_type \in {"Work", "ShortBreak", "LongBreak"}

\* C18: session ids are unique per creation; in particular a session just
\* built never carries the id of the session built before it.
C18_UniqueIds ==
  [][ last'.created =>
        /\ state'.current_session # None
        /\ Some(state'.current_session[1].id) # last_id ]_vars

\* C19: completed_sessions never decreases across any operation, and it
\* changes only by +1, inside a completion of a Work session
\* (complete_session, called directly or by check_if_completed).
C19_CompletedMonotonic ==
  [][ \/ state'.completed_sessions = state.completed_sessions
      \/ /\ state'.completed_sessions = state.completed_sessions + 1
         /\ last'.op \in {"complete_session", "check_if_completed"}
         /\ HasWorkSession(state) ]_vars

\* the count kept by a reset after two Work sessions were completed
C19_Witness ==
  /\ last.op = "reset_timer"
  /\ last.res = "ok"
  /\ state.completed_sessions = 2
  /\ last.ret[1].completed_sessions = 2

\* C20: no operation panics on valid input: complete_session() never
\* applies the countdown decrement to a countdown of 0, and the accumulated
\* pause subtracted from the time since the phase start never exceeds it.
C20_NoPanic ==
  /\ [](last.res # "panic")
  /\ [](( /\ state.start_time # None
          /\ state.current_state # "Paused" ) =>
          (now - state.start_time[1]) - state.paused_duration >= 0)
  /\ [][ state'.completed_sessions # state.completed_sessions =>
          state.sessions_until_long_break # 0 ]_vars

\* C21: update_config(c) always succeeds; afterwards the config is c (what
\* get_config() returns), the countdown equals c.sessions_until_long_break
\* whatever it was before, and the phase, the current session, the start and
\* pause instants, the accumulated pause and completed_sessions are as they
\* were.
C21_UpdateConfig ==
  /\ [][ last'.op = "update_config" =>
          /\ last'.res = "ok"
          /\ state'.config \in ConfigInputs
          /\ state'.sessions_until_long_break =
               state'.config.sessions_until_long_break
          /\ state'.current_state = state.current_state
          /\ state'.current_session = state.current_session
          /\ state'.start_time = state.start_time
          /\ state'.pause_start = state.pause_start
          /\ state'.paused_duration = state.paused_duration
          /\ state'.completed_sessions = state.completed_sessions ]_vars
  /\ [][ (last'.op = "get_config" /\ last'.res = "ok") =>
          last'.ret = Some(state.config) ]_vars

\* C22: check_if_completed() returns no snapshot and leaves the whole engine
\* state unchanged whenever it is called in phase Idle, in phase Paused, or
\* in a running phase whose running elapsed time is below the configured
\* duration of that phase.
C22_NotCompleted ==
  [][ ( /\ last'.op = "check_if_completed"
        /\ pending' >= pending
        /\ \/ state.current_state \in {"Idle", "Paused"}
           \/ RunningSecs(state, now) <
                ConfiguredDuration(state.current_state, state.config) ) =>
        /\ last'.res \in {"ok", "Lock error"}
        /\ last'.ret = None
        /\ pending' = pending
        /\ state' = state ]_vars

\* a poll of a Work phase whose time since the start has reached the
\* duration while its running time, the pause left out, has not
C22_Witness ==
  /\ last.op = "check_if_completed"
  /\ last.res = "ok"
  /\ last.ret = None
  /\ pending = 0
  /\ state.current_state = "Work"
  /\ state.paused_duration > 0
  /\ (now - state.start_time[1]) \div TicksPerSec
       >= ConfiguredDuration("Work", state.config)

\* the state complete_session() leaves when it is called in state s at
\* instant t and returns
CompleteFrom(s, t) ==
  LET s2 == Decrement(MarkCompleted(s))
  IN Transition(ResetCountdown(s2), NextState(s2), t)

\* C23: check_if_completed() called, with no operation in between, in a
\* running phase whose running elapsed time has reached the configured
\* duration returns a snapshot, and the state it leaves and the snapshot it
\* returns are those complete_session() would have produced from that
\* state: the snapshot shows the phase after the transition.
C23_SameAsComplete ==
  [][ ( /\ last.op = "check_if_completed"
        /\ last.res = "dropped"
        /\ last'.op = "check_if_completed"
        /\ pending' < pending ) =>
        /\ last'.res = "ok"
        /\ state' = CompleteFrom(state, now)
        /\ last'.ret = Some(get_timer_data_internal(state', now))
        /\ last'.ret[1].state = state'.current_state ]_vars

\* C24: the passage of time alone never changes the phase, the session or
\* the counters. A running phase whose elapsed time has reached its duration
\* stays in that phase, reporting remaining 0 and progress 1, until
\* complete_session(), check_if_completed(), pause() or reset() is called.
C24_Reactive ==
  /\ [][ now' # now => state' = state ]_vars
  /\ [][ ( /\ state.current_state \in Running
           /\ RunningSecs(state, now) >=
                ConfiguredDuration(state.current_state, state.config)
           /\ state'.current_state # state.current_state ) =>
          last'.op \in {"complete_session", "check_if_completed",
                        "pause_timer", "reset_timer"} ]_vars
  /\ []( ( /\ state.current_state \in Running
           /\ RunningSecs(state, now) >=
                ConfiguredDuration(state.current_state, state.config)
           /\ last.op = "get_timer_state"
           /\ last.res = "ok" ) =>
          /\ last.ret[1].state = state.current_state
          /\ last.ret[1].remaining_time = 0
          /\ last.ret[1].progress = <<1, 1>> )

\* a break read one second after its duration ran out, still a break
C24_Witness ==
  /\ state.current_state = "ShortBreak"
  /\ RunningSecs(state, now) > state.config.short_break_duration
  /\ last.op = "get_timer_state"
  /\ last.res = "ok"
  /\ last.ret[1].state = "ShortBreak"
  /\ last.ret[1].remaining_time = 0

\* C25: of two start() calls issued together in phase Idle (or Paused), with
\* no other operation in between, exactly one succeeds and the other returns
\* the illegal-transition error, and exactly one session is created (none
\* by a resume). start_timer holds the lock from its first statement to its
\* return, so the two calls run one after the other: the first finds Idle
\* or Paused, the second runs right after it.
C25_ConcurrentStarts ==
  [][ last'.op = "start_timer" =>
        /\ state.current_state \in {"Idle", "Paused"} =>
             /\ last'.res = "ok"
             /\ state'.current_state \in {"Work", "ShortBreak", "LongBreak"}
             /\ last'.created <=> state.current_state = "Idle"
        /\ (last.op = "start_timer" /\ last.res = "ok") =>
             /\ last'.res = "Cannot start timer in current state"
             /\ ~last'.created
             /\ state' = state ]_vars

\* C26: check_if_completed() is one atomic critical section: whenever it
\* performs a completion, the phase at that moment is running (not Paused,
\* not Idle) and its running elapsed time has reached its configured
\* duration, under every interleaving with other callers.
C26_AtomicCheck ==
  [][ ( /\ last'.op = "check_if_completed"
        /\ pending' < pending
        /\ last'.res # "Lock error" ) =>
        /\ state.current_state \in {"Work", "ShortBreak", "LongBreak"}
        /\ RunningSecs(state, now) >=
             ConfiguredDuration(state.current_state, state.config) ]_vars

\* ---------------------------------------------------- claims under SpecPoll

\* the running phase of the state expires before the clock stops at MaxTime
ExpiresInTime ==
  /\ state.current_state \in {"Work", "ShortBreak", "LongBreak"}
  /\ state.start_time[1] + state.paused_duration
       + ConfiguredDuration(state.current_state, state.config) * TicksPerSec
       <= MaxTime

C28_PureReads ==
  /\ [][ last'.op \in {"get_timer_state", "get_config"} =>
          /\ last'.res = "ok"
          /\ last'.ret # None
          /\ state' = state ]_vars
  /\ [][ ( /\ last.op = "get_timer_state"
           /\ last.res = "ok"
           /\ last'.op = "get_timer_state" ) =>
          last'.ret = last.ret ]_vars

\* C30: in every reachable state with a cycle length N >= 1 the long-break
\* countdown satisfies 1 <= countdown <= N at the end of every operation: it
\* is never left at 0, also when sessions are completed while Paused.
C30_CountdownRange ==
  state.config.sessions_until_long_break >= 1 =>
    /\ 1 <= state.sessions_until_long_break
    /\ state.sessions_until_long_break
         <= state.config.sessions_until_long_break

\* ------------------------------------------------ claims under SpecStorage

\* a comes before b in the lexicographic order of strings: at the first
\* position where they differ a has the smaller byte, or a ends there
LexLess(a, b) ==
  \E k \in 1..Len(b) :
    /\ \A i \in 1..(k - 1) : i <= Len(a) /\ a[i] = b[i]
    /\ (k > Len(a) \/ a[k] < b[k])

LexLeq(a, b) == a = b \/ LexLess(a, b)

\* the stored, well-formed records of the directory (the .json files that
\* parse) whose date is in the range, both bounds included
RecordsInRange(dir, from_date, to_date) ==
  IF dir = None THEN {}
  ELSE {f.content[1] :
          f \in {g \in dir[1] :
                   /\ g.ext = "json"
                   /\ g.content # None
                   /\ from_date # None =>
                        LexLeq(from_date[1], g.content[1].date)
                   /\ to_date # None =>
                        LexLeq(g.content[1].date, to_date[1])}}

\* C29: load_statistics(from, to) returns exactly the stored,
\* well-formed records whose date d satisfies from <= d (when from is given)
\* and d <= to (when to is given), both bounds inclusive under the
\* lexicographic order of strings, sorted in ascending order of date.
C29_LoadStatistics ==
  loaded # None =>
    LET r == loaded.statistics
        wanted == RecordsInRange(stats_dir, loaded.from_date, loaded.to_date)
    IN /\ {r[i] : i \in 1..Len(r)} = wanted
       /\ Len(r) = Cardinality(wanted)
       /\ \A i, j \in 1..Len(r) : i < j => LexLeq(r[i].date, r[j].date)

\* ------------------------------------------------ more claims under Spec

\* an Option<TimerSession> that is absent or not finished
Unfinished(session) ==
  session # None =>
    /\ session[1].completed = FALSE
    /\ session[1].end_time = None

\* C31: no finished session is left or exposed: at the end of every
\* operation the current session of the state, if present, has
\* completed = false and no end_time, and so has the session of every
\* snapshot an operation returns.
C31_NoFinishedSession ==
  /\ Unfinished(state.current_session)
  /\ (last.res = "ok" /\ last.op # "get_config" /\ last.ret # None) =>
       Unfinished(last.ret[1].current_session)

\* ------------------------------------------- claims under SpecManual

BreakPhases == {"ShortBreak", "LongBreak"}

\* C32: with auto_start_breaks false throughout, the phase is never
\* ShortBreak or LongBreak, no session is a break session, and every
\* start() that succeeds from Idle begins a Work session, whatever was
\* completed before it.
C32_NoBreakPhase ==
  /\ [](/\ state.config.auto_start_breaks = FALSE
        /\ state.current_state \notin BreakPhases
        /\ state.current_session # None =>
             state.current_session[1].session_type \notin BreakPhases)
  /\ [][ ( state.current_state = "Idle" /\ last'.op = "start_timer"
           /\ last'.res = "ok" ) =>
         /\ state'.current_state = "Work"
         /\ state'.current_session # None
         /\ state'.current_session[1].session_type = "Work" ]_vars

\* start() has begun a Work session after a Work session was completed
\* in phase Work with the long break due (cycle 1: countdown reset to 1),
\* work sessions set to follow breaks automatically
C32_Witness ==
  /\ last.op = "start_timer" /\ last.res = "ok" /\ last.created
  /\ state.current_state = "Work"
  /\ state.completed_sessions >= 1
  /\ state.config.auto_start_pomodoros
  /\ state.config.auto_start_breaks = FALSE
  /\ state.config.sessions_until_long_break = 1
  /\ state.sessions_until_long_break = 1

====
